---- MODULE Spec2Model ----
(***************************************************************************)
(* The D-Bus API bridge of the VMM (vmm/src/api/dbus/mod.rs).              *)
(*                                                                         *)
(* Threads of the model:                                                   *)
(*   - the "dbus-thread", which runs the event loop of start_dbus_thread:  *)
(*     a select between one executor tick and the shutdown receiver; every *)
(*     method call of the interface is a task polled by those ticks;       *)
(*   - the worker threads of blocking::unblock, one closure per call,      *)
(*     which run the blocking round-trip with the controller;              *)
(*   - the controller thread, the single consumer of the request channel;  *)
(*   - the owner of the shutdown channels, which calls                     *)
(*     dbus_api_graceful_shutdown (or drops the channels).                 *)
(***************************************************************************)
EXTENDS Integers, Sequences, FiniteSets, TLC

\* Number of method calls the bus delivers during one run.
NumCalls == 2

Calls == 1..NumCalls

\* The ticks completed after the begin signal are counted up to TickCap.
TickCap == 2

\* One method of each shape the interface has:
\*   vmm_ping       no argument, duplicates the handles and offloads itself
\*   vm_add_device  decodes its argument, then goes through vm_action
\*   vm_create      duplicates the handles, then decodes, then offloads
\*   vm_coredump    compiled per target/feature
Methods == {"vmm_ping", "vm_add_device", "vm_create", "vm_coredump"}

VARIABLES
    guest_debug,      \* cfg(all(target_arch = "x86_64", feature = "guest_debug"))
    method,           \* method[c]: the method call c invokes ("none" before it arrives)
    argOK,            \* argOK[c]: whether the argument of c is well-formed JSON
    st,               \* st[c]: scheduling state of the task of call c
    ip,               \* ip[c]: position of the task in the body of its method
    trace,            \* trace[c]: the steps the task of c has completed, in order
    el,               \* position of the event loop of the dbus-thread
    lockHolder,       \* set of calls holding the guard of api_sender (futures Mutex)
    worker,           \* worker[c]: position of the closure given to blocking::unblock
    channel,          \* the mpsc channel of ApiRequests, each tagged by its call
    evt,              \* counter of the api_notifier eventfd
    response,         \* response[c]: content of the response channel of c's request
    result,           \* result[c]: output of the unblock task of c
    sent,             \* sent[c]: requests c's closure has put on the channel
    notified,         \* notified[c]: writes of c's closure to the eventfd
    reply,            \* reply[c]: the replies transmitted to the caller of c
    ctlSeq,           \* number of requests the controller has processed
    begin,            \* oneshot (send_shutdown, recv_shutdown): "open", "sent", "canceled"
    doneChan,         \* oneshot (send_done, recv_done): "empty", "value", "closed"
    sd,               \* owner of the shutdown channels: "idle", "polling", "returned", "dropped"
    beginFailed,      \* send_shutdown.send(()) returned Err
    preBegin,         \* calls accepted when the begin signal was sent
    inFlightAtBegin,  \* calls accepted and not yet replied to at that moment
    ticksAfterBegin   \* ticks completed after the begin signal was sent (up to TickCap)

callVars == <<method, argOK, st, ip, trace, lockHolder, reply>>
workVars == <<worker, channel, evt, response, result, sent, notified, ctlSeq>>
shutVars == <<begin, doneChan, sd, beginFailed, preBegin, inFlightAtBegin>>
vars == <<guest_debug, callVars, workVars, shutVars, el, ticksAfterBegin>>

----------------------------------------------------------------------------
(* Errors and replies *)

\* fdo::Error::Failed(format!("{error:?}"))
api_error(error) == [class |-> "Failed", text |-> <<"Debug", error>>, val |-> 0]

\* fdo::Error::IOError(format!("{err:?}"))
io_error(err) == [class |-> "IOError", text |-> <<"Debug", err>>, val |-> 0]

\* Ok(..) of a method: the value the round-trip returned, encoded.
ok_reply(v) == [class |-> "Ok", text |-> <<"Json">>, val |-> v]

\* The diagnostic texts of the four kinds of failure.
DecodeText == <<"Debug", "serde_json::Error">>
NotifierText == <<"Debug", "io::Error">>
ControllerText == <<"Debug", "ApiError">>
UnavailableText == <<"Debug", "VmCoredump only works on x86_64 with the guest_debug feature enabled">>

----------------------------------------------------------------------------
(* Bodies of the methods, as the sequence of their steps *)

\* DBusApi::vm_action: clone_api_sender().await, clone_api_notifier()?,
\* blocking::unblock(..).await.map_err(api_error)?, Ok(result.into())
vm_action == <<"clone_sender", "clone_notifier", "unblock", "await", "return">>

vmm_ping == <<"clone_sender", "clone_notifier", "unblock", "await", "return">>

vm_add_device == <<"decode">> \o vm_action

vm_create == <<"clone_sender", "clone_notifier", "decode", "unblock", "await", "return">>

\* Faulty variant of vm_coredump: the body of the guest_debug build on every build.
vm_coredump_any_build == <<"decode">> \o vm_action

vm_coredump == IF guest_debug THEN <<"decode">> \o vm_action ELSE <<"unavailable">>

Body(m) ==
    CASE m = "vmm_ping" -> vmm_ping
      [] m = "vm_add_device" -> vm_add_device
      [] m = "vm_create" -> vm_create
      [] m = "vm_coredump" -> vm_coredump

InFlight(c) == st[c] \notin {"idle", "done"}

\* Number of times the task of c has completed step s.
Count(c, s) == Cardinality({i \in 1..Len(trace[c]) : trace[c][i] = s})

----------------------------------------------------------------------------
Init ==
    /\ guest_debug \in BOOLEAN
    /\ method = [c \in Calls |-> "none"]
    /\ argOK = [c \in Calls |-> TRUE]
    /\ st = [c \in Calls |-> "idle"]
    /\ ip = [c \in Calls |-> 1]
    /\ trace = [c \in Calls |-> <<>>]
    /\ el = "select"
    /\ lockHolder = {}
    /\ worker = [c \in Calls |-> "none"]
    /\ channel = <<>>
    /\ evt = 0
    /\ response = [c \in Calls |-> <<>>]
    /\ result = [c \in Calls |-> <<>>]
    /\ sent = [c \in Calls |-> 0]
    /\ notified = [c \in Calls |-> 0]
    /\ reply = [c \in Calls |-> <<>>]
    /\ ctlSeq = 0
    /\ begin = "open"
    /\ doneChan = "empty"
    /\ sd = "idle"
    /\ beginFailed = FALSE
    /\ preBegin = {}
    /\ inFlightAtBegin = {}
    /\ ticksAfterBegin = 0

----------------------------------------------------------------------------
(* The task of a method call.  Between two suspension points the task runs   *)
(* on the dbus-thread alone; its steps are functions of the task's view      *)
(*   t = [st, ip, trace, lock, worker, reply]                                *)
(* of the state, which poll composes.                                        *)

Task(c) == [st |-> st[c], ip |-> ip[c], trace |-> trace[c], lock |-> lockHolder,
            worker |-> worker[c], reply |-> reply[c]]

\* The step is completed and the task goes on to the next one.
Completed(t, s) == [t EXCEPT !.ip = @ + 1, !.trace = Append(@, s)]

\* The method returns r, which is transmitted to its caller.
Returned(t, r) == [t EXCEPT !.st = "done", !.reply = Append(@, r)]

\* Faulty variant of decode: the result of the decoder is not checked.
decode_unchecked(c, t) == Completed(t, "decode")

\* serde_json::from_str(&config).map_err(api_error)?
decode(c, t) ==
    IF argOK[c] THEN Completed(t, "decode")
    ELSE Returned(t, api_error("serde_json::Error"))

\* Faulty variant of clone_api_sender: the guard is not dropped after the clone.
clone_api_sender_guard_kept(c, t) ==
    IF t.lock # {} THEN [t EXCEPT !.st = "lockwait"]
    ELSE LET guarded == [t EXCEPT !.lock = {c}]
         IN  Completed(guarded, "clone_sender")

\* self.api_sender.lock().await.clone(): the task takes the guard (or
\* suspends until it is released), clones the Sender and drops the guard.
clone_api_sender(c, t) ==
    IF t.lock # {} THEN [t EXCEPT !.st = "lockwait"]
    ELSE LET guarded == [t EXCEPT !.lock = {c}]
             cloned == Completed(guarded, "clone_sender")
         IN  [cloned EXCEPT !.lock = @ \ {c}]

\* Faulty variant of clone_api_notifier: the closure is handed to the workers before the
\* result of try_clone is looked at.
clone_api_notifier_offloading(c, t, cloned) ==
    IF cloned THEN Completed(t, "clone_notifier")
    ELSE [Returned(t, io_error("io::Error")) EXCEPT !.worker = "queued"]

\* Faulty variant of clone_api_notifier: the error goes through api_error like the
\* other errors.
clone_api_notifier_failed(c, t, cloned) ==
    IF cloned THEN Completed(t, "clone_notifier")
    ELSE Returned(t, api_error("io::Error"))

\* self.api_notifier.try_clone().map_err(|err| fdo::Error::IOError(..)), then
\* the ? operator.  try_clone is dup(2): cloned is whether it succeeds.
clone_api_notifier(c, t, cloned) ==
    IF cloned THEN Completed(t, "clone_notifier")
    ELSE Returned(t, io_error("io::Error"))

\* Faulty variant of unblock: the closure is given the guard of the sender in the
\* place of a clone, and holds it during the round-trip.
unblock_with_guard(c, t) ==
    [Completed(t, "unblock") EXCEPT !.worker = "queued", !.lock = {c}]

\* blocking::unblock(move || super::..(api_notifier, api_sender, ..)): the
\* closure is queued for a worker thread.
unblock(c, t) == [Completed(t, "unblock") EXCEPT !.worker = "queued"]

\* Faulty variant of await_unblock: the thread waits for the closure to return.
await_unblock_blocking(c, t) ==
    IF t.worker = "done" THEN Completed(t, "await")
    ELSE t

\* .await of the unblock task: the task goes on when the closure has
\* returned, and suspends when it has not.
await_unblock(c, t) ==
    IF t.worker = "done" THEN Completed(t, "await")
    ELSE [t EXCEPT !.st = "awaiting"]

\* Faulty variant of return_result: the value returned is that of a round-trip of any
\* call that has one.
return_result_any(c, t) ==
    LET d == CHOOSE d \in Calls : result[d] # <<>> /\ (d # c \/ \A e \in Calls : e # c => result[e] = <<>>)
    IN  IF result[d][1].ok
          THEN Returned(Completed(t, "return"), ok_reply(result[d][1].val))
          ELSE Returned(t, api_error("ApiError"))

\* Faulty variant of return_result: a round-trip that failed is offloaded again.
return_result_retry(c, t) ==
    IF result[c][1].ok
      THEN Returned(Completed(t, "return"), ok_reply(result[c][1].val))
      ELSE [t EXCEPT !.worker = "queued", !.ip = @ - 1]

\* .map_err(api_error)? and the encoding of the Ok value: the method returns.
return_result(c, t) ==
    IF result[c][1].ok
      THEN Returned(Completed(t, "return"), ok_reply(result[c][1].val))
      ELSE Returned(t, api_error("ApiError"))

\* vm_coredump without the guest_debug feature: Err(api_error("VmCoredump ..."))
coredump_unavailable(c, t) ==
    Returned(t, api_error("VmCoredump only works on x86_64 with the guest_debug feature enabled"))

Step(c, t, cloned) ==
    LET s == Body(method[c])[t.ip] IN
    CASE s = "decode" -> decode(c, t)
      [] s = "clone_sender" -> clone_api_sender(c, t)
      [] s = "clone_notifier" -> clone_api_notifier(c, t, cloned)
      [] s = "unblock" -> unblock(c, t)
      [] s = "await" -> await_unblock(c, t)
      [] s = "return" -> return_result(c, t)
      [] s = "unavailable" -> coredump_unavailable(c, t)

\* The task runs until it returns, suspends, or has handed its closure to
\* blocking::unblock (the worker threads run from then on).
RECURSIVE Run(_, _, _)
Run(c, t, cloned) ==
    LET u == Step(c, t, cloned) IN
    IF u.st # "running" \/ u = t \/ Body(method[c])[t.ip] = "unblock" THEN u
    ELSE Run(c, u, cloned)

\* The tick that polled a task returns: the select arm re-arms the next tick.
TickCompleted ==
    /\ el' = "select"
    /\ ticksAfterBegin' = IF begin = "sent" /\ ticksAfterBegin < TickCap
                            THEN ticksAfterBegin + 1 ELSE ticksAfterBegin

\* #[dbus_interface]: a method call arrives and its task is spawned on the
\* executor of the connection.  Calls are numbered in their order of arrival.
Accept(c) ==
    /\ el = "select"
    /\ st[c] = "idle"
    /\ \A d \in Calls : d < c => st[d] # "idle"
    /\ \E m \in Methods, a \in BOOLEAN :
          /\ (m = "vmm_ping" => a)
          /\ method' = [method EXCEPT ![c] = m]
          /\ argOK' = [argOK EXCEPT ![c] = a]
    /\ st' = [st EXCEPT ![c] = "runnable"]
    /\ UNCHANGED <<guest_debug, ip, trace, lockHolder, reply,
                   workVars, shutVars, el, ticksAfterBegin>>

\* The tick polls the task of c.  The tick returns when the task suspends
\* or returns; a release of the guard wakes the tasks that wait for it.
poll(c) ==
    /\ el = "tick"
    /\ st[c] = "running"
    /\ \E cloned \in BOOLEAN :
          LET t == Run(c, Task(c), cloned) IN
          /\ st' = [d \in Calls |->
                       IF d = c THEN t.st
                       ELSE IF st[d] = "lockwait" /\ t.lock = {} THEN "runnable"
                       ELSE st[d]]
          /\ ip' = [ip EXCEPT ![c] = t.ip]
          /\ trace' = [trace EXCEPT ![c] = t.trace]
          /\ lockHolder' = t.lock
          /\ worker' = [worker EXCEPT ![c] = t.worker]
          /\ reply' = [reply EXCEPT ![c] = t.reply]
          /\ IF t.st = "running" THEN UNCHANGED <<el, ticksAfterBegin>>
             ELSE TickCompleted
    /\ UNCHANGED <<guest_debug, method, argOK, channel, evt, response, result,
                   sent, notified, ctlSeq, shutVars>>

----------------------------------------------------------------------------
(* The closure of blocking::unblock, on a worker thread: the blocking        *)
(* round-trip super::vmm_ping / super::vm_action / super::vm_create          *)

\* api_sender.send(ApiRequest::..(.., response_sender))
request_send(c) ==
    /\ worker[c] = "queued"
    /\ channel' = Append(channel, c)
    /\ sent' = [sent EXCEPT ![c] = @ + 1]
    /\ worker' = [worker EXCEPT ![c] = "sent"]
    /\ UNCHANGED <<guest_debug, callVars, evt, response, result, notified, ctlSeq,
                   shutVars, el, ticksAfterBegin>>

\* api_evt.write(1)
notify(c) ==
    /\ worker[c] = "sent"
    /\ evt' = evt + 1
    /\ notified' = [notified EXCEPT ![c] = @ + 1]
    /\ worker' = [worker EXCEPT ![c] = "notified"]
    /\ UNCHANGED <<guest_debug, callVars, channel, response, result, sent, ctlSeq,
                   shutVars, el, ticksAfterBegin>>

\* response_receiver.recv(): the closure returns, which wakes the task that
\* awaits it.
response_recv(c) ==
    /\ worker[c] = "notified"
    /\ response[c] # <<>>
    /\ result' = [result EXCEPT ![c] = response[c]]
    /\ worker' = [worker EXCEPT ![c] = "done"]
    /\ st' = [st EXCEPT ![c] = IF @ = "awaiting" THEN "runnable" ELSE @]
    /\ UNCHANGED <<guest_debug, method, argOK, ip, trace, lockHolder,
                   reply, channel, evt, response, sent, notified, ctlSeq,
                   shutVars, el, ticksAfterBegin>>

\* The controller: woken by the eventfd, it takes the next request of the
\* channel and answers on the response sender the request carries.  Each
\* answer is tagged with the rank of the request.
controller ==
    /\ evt > 0
    /\ channel # <<>>
    /\ \E ok \in BOOLEAN :
          response' = [response EXCEPT ![Head(channel)] =
                          <<[ok |-> ok, val |-> ctlSeq + 1]>>]
    /\ ctlSeq' = ctlSeq + 1
    /\ channel' = Tail(channel)
    /\ evt' = evt - 1
    /\ UNCHANGED <<guest_debug, callVars, worker, result, sent, notified,
                   shutVars, el, ticksAfterBegin>>

----------------------------------------------------------------------------
(* The event loop of the dbus-thread (start_dbus_thread) *)

\* The tasks the executor owns are never polled again once the loop is left.
Orphaned == [c \in Calls |-> IF InFlight(c) THEN "orphaned" ELSE st[c]]

\* Faulty variant of executor_tick: try_tick() in the place of tick(), which returns
\* at once when no task is runnable.
executor_try_tick(c) ==
    \/ /\ el = "select"
       /\ st[c] = "runnable"
       /\ el' = "tick"
       /\ st' = [st EXCEPT ![c] = "running"]
       /\ UNCHANGED <<guest_debug, method, argOK, ip, trace, lockHolder,
                      reply, workVars, shutVars, ticksAfterBegin>>
    \/ /\ el = "select"
       /\ \A d \in Calls : st[d] # "runnable"
       /\ TickCompleted
       /\ UNCHANGED <<guest_debug, callVars, workVars, shutVars>>

\* Faulty variant of executor_tick: a tick is started whether or not the previous
\* one has completed.
executor_tick_concurrent(c) ==
    /\ el \in {"select", "tick"}
    /\ st[c] = "runnable"
    /\ el' = "tick"
    /\ st' = [st EXCEPT ![c] = "running"]
    /\ UNCHANGED <<guest_debug, method, argOK, ip, trace, lockHolder,
                   reply, workVars, shutVars, ticksAfterBegin>>

\* select!: the arm of executor_tick.  connection.executor().tick() runs one
\* runnable task; it is pending while no task is runnable.
executor_tick(c) ==
    /\ el = "select"
    /\ st[c] = "runnable"
    /\ el' = "tick"
    /\ st' = [st EXCEPT ![c] = "running"]
    /\ UNCHANGED <<guest_debug, method, argOK, ip, trace, lockHolder,
                   reply, workVars, shutVars, ticksAfterBegin>>

\* Faulty variant of recv_shutdown: the arm matches the begin value only, and the loss
\* of the sender of begin goes unnoticed.
recv_shutdown_value_only ==
    /\ el = "select"
    /\ begin = "sent"
    /\ doneChan' = IF sd = "polling" THEN "value" ELSE "closed"
    /\ el' = "exited"
    /\ st' = Orphaned
    /\ UNCHANGED <<guest_debug, method, argOK, ip, trace, lockHolder,
                   reply, workVars, begin, sd, beginFailed, preBegin,
                   inFlightAtBegin, ticksAfterBegin>>

\* Faulty variant of recv_shutdown: done is sent and the loop goes on ticking (the
\* fused receiver, once it has yielded, is not ready again).
recv_shutdown_no_break ==
    /\ el = "select"
    /\ begin \in {"sent", "canceled"}
    /\ doneChan' = IF sd = "polling" THEN "value" ELSE "closed"
    /\ begin' = "observed"
    /\ UNCHANGED <<guest_debug, callVars, workVars, sd, beginFailed, preBegin,
                   inFlightAtBegin, el, ticksAfterBegin>>

\* Faulty variant of recv_shutdown: the select prefers the tick, and takes the arm of
\* the shutdown receiver only when no task is runnable.
recv_shutdown_after_ticks ==
    /\ el = "select"
    /\ \A c \in Calls : st[c] # "runnable"
    /\ begin \in {"sent", "canceled"}
    /\ doneChan' = IF sd = "polling" THEN "value" ELSE "closed"
    /\ el' = "exited"
    /\ st' = Orphaned
    /\ UNCHANGED <<guest_debug, method, argOK, ip, trace, lockHolder,
                   reply, workVars, begin, sd, beginFailed, preBegin,
                   inFlightAtBegin, ticksAfterBegin>>

\* Faulty variant of recv_shutdown: the shutdown receiver is looked at while a tick is
\* in progress too, and the tick is abandoned.
recv_shutdown_preempting ==
    /\ el \in {"select", "tick"}
    /\ begin \in {"sent", "canceled"}
    /\ doneChan' = IF sd = "polling" THEN "value" ELSE "closed"
    /\ el' = "exited"
    /\ st' = Orphaned
    /\ UNCHANGED <<guest_debug, method, argOK, ip, trace, lockHolder,
                   reply, workVars, begin, sd, beginFailed, preBegin,
                   inFlightAtBegin, ticksAfterBegin>>

\* select!: the arm of recv_shutdown, ready when the begin signal was sent
\* or its sender dropped: send_done.send(()).ok(); break
recv_shutdown ==
    /\ el = "select"
    /\ begin \in {"sent", "canceled"}
    /\ doneChan' = IF sd = "polling" THEN "value" ELSE "closed"
    /\ el' = "exited"
    /\ st' = Orphaned
    /\ UNCHANGED <<guest_debug, method, argOK, ip, trace, lockHolder,
                   reply, workVars, begin, sd, beginFailed, preBegin,
                   inFlightAtBegin, ticksAfterBegin>>

\* A task polled by the tick panics: the panic unwinds block_on and the
\* thread, which drops recv_shutdown and send_done.
tick_panic ==
    /\ el = "tick"
    /\ el' = "panicked"
    /\ doneChan' = IF doneChan = "empty" THEN "closed" ELSE doneChan
    /\ st' = Orphaned
    /\ UNCHANGED <<guest_debug, method, argOK, ip, trace, lockHolder,
                   reply, workVars, begin, sd, beginFailed, preBegin,
                   inFlightAtBegin, ticksAfterBegin>>

----------------------------------------------------------------------------
(* The owner of the shutdown channels *)

RecvShutdownAlive == el \in {"select", "tick"}

\* Faulty variant of send_shutdown: the result of the send is not checked, the
\* function goes on to poll the done channel.
send_shutdown_unchecked ==
    /\ sd = "idle"
    /\ sd' = "polling"
    /\ IF RecvShutdownAlive
         THEN /\ begin' = "sent"
              /\ preBegin' = {c \in Calls : st[c] # "idle"}
              /\ inFlightAtBegin' = {c \in Calls : InFlight(c)}
              /\ UNCHANGED beginFailed
         ELSE /\ beginFailed' = TRUE
              /\ UNCHANGED <<begin, preBegin, inFlightAtBegin>>
    /\ UNCHANGED <<guest_debug, callVars, workVars, doneChan, el, ticksAfterBegin>>

\* dbus_api_graceful_shutdown: if send_shutdown.send(()).is_err() { return; }
send_shutdown ==
    /\ sd = "idle"
    /\ IF RecvShutdownAlive
         THEN /\ begin' = "sent"
              /\ sd' = "polling"
              /\ preBegin' = {c \in Calls : st[c] # "idle"}
              /\ inFlightAtBegin' = {c \in Calls : InFlight(c)}
              /\ UNCHANGED beginFailed
         ELSE /\ beginFailed' = TRUE
              /\ sd' = "returned"
              /\ UNCHANGED <<begin, preBegin, inFlightAtBegin>>
    /\ UNCHANGED <<guest_debug, callVars, workVars, doneChan, el, ticksAfterBegin>>

\* Faulty variant of try_recv_done: the loop is left on a value only, and goes on
\* when the sender of done was dropped.
try_recv_done_until_value ==
    /\ sd = "polling"
    /\ doneChan = "value"
    /\ sd' = "returned"
    /\ UNCHANGED <<guest_debug, callVars, workVars, begin, doneChan, beginFailed,
                   preBegin, inFlightAtBegin, el, ticksAfterBegin>>

\* dbus_api_graceful_shutdown: while let Ok(None) = recv_done.try_recv() {}
\* An iteration that finds the channel open and empty (Ok(None)) changes
\* nothing; the loop is left on a value (Ok(Some)) or on Err(Canceled).
try_recv_done ==
    /\ sd = "polling"
    /\ doneChan # "empty"
    /\ sd' = "returned"
    /\ UNCHANGED <<guest_debug, callVars, workVars, begin, doneChan, beginFailed,
                   preBegin, inFlightAtBegin, el, ticksAfterBegin>>

\* The owner drops the DBusApiShutdownChannels without calling
\* dbus_api_graceful_shutdown.
drop_channels ==
    /\ sd = "idle"
    /\ sd' = "dropped"
    /\ begin' = IF RecvShutdownAlive THEN "canceled" ELSE begin
    /\ UNCHANGED <<guest_debug, callVars, workVars, doneChan, beginFailed,
                   preBegin, inFlightAtBegin, el, ticksAfterBegin>>

----------------------------------------------------------------------------
Next ==
    \/ \E c \in Calls : Accept(c)
    \/ \E c \in Calls : executor_tick(c)
    \/ \E c \in Calls : poll(c)
    \/ \E c \in Calls : request_send(c)
    \/ \E c \in Calls : notify(c)
    \/ \E c \in Calls : response_recv(c)
    \/ controller
    \/ recv_shutdown
    \/ tick_panic
    \/ send_shutdown
    \/ try_recv_done
    \/ drop_channels

Spec == Init /\ [][Next]_vars

\* The threads keep being scheduled: a tick in progress goes on polling its
\* task, the select takes an arm that stays ready (the arm of the shutdown
\* receiver is ready at every select once the begin signal is there), and the
\* owner goes on with its try_recv loop.
FairSpec ==
    /\ Spec
    /\ WF_vars(\E c \in Calls : poll(c))
    /\ WF_vars(recv_shutdown)
    /\ WF_vars(try_recv_done)

----------------------------------------------------------------------------
(* Vocabulary of the properties *)

ConfigBearing == {"vm_add_device", "vm_create", "vm_coredump"}

Replied(c) == reply[c] # <<>>

RepliedOk(c) == Replied(c) /\ reply[c][1].class = "Ok"

RepliedFailure(c) == Replied(c) /\ reply[c][1].class # "Ok"

\* The request of c is on the channel.
OnChannel(c) == \E i \in 1..Len(channel) : channel[i] = c

\* Nothing of call c has reached the controller side.
NoControllerInteraction(c) ==
    /\ worker[c] = "none"
    /\ sent[c] = 0
    /\ notified[c] = 0
    /\ ~OnChannel(c)
    /\ response[c] = <<>>

\* No call was in flight when the begin signal was sent and none has been
\* accepted since.
QuietShutdown ==
    /\ begin = "sent"
    /\ inFlightAtBegin = {}
    /\ \A c \in Calls : st[c] # "idle" => c \in preBegin

----------------------------------------------------------------------------
(* C1 *)

\* C1: when the event loop has sent the done signal, every call that had been
\* accepted before the begin signal was sent has had its reply transmitted
\* to its caller.
C1_NoReplyLostOnShutdown ==
    doneChan = "value" => \A c \in preBegin : Replied(c)

----------------------------------------------------------------------------
(* C2 *)

\* C2: a call of a config-bearing method (vm_coredump: on a build that
\* supports it) whose argument does not decode never has a closure handed to
\* blocking::unblock, never has a request on the channel, never writes the
\* notifier, and returns one failure: that of the decoder, or, for vm_create,
\* which clones its handles first, that of the notifier duplication.
C2_DecodeFailureSendsNothing ==
    \A c \in Calls :
        (/\ method[c] \in ConfigBearing
         /\ ~argOK[c]
         /\ (method[c] = "vm_coredump" => guest_debug))
        => /\ NoControllerInteraction(c)
           /\ Count(c, "unblock") = 0
           /\ st[c] = "done" =>
                 \/ reply[c] = <<api_error("serde_json::Error")>>
                 \/ method[c] = "vm_create" /\ reply[c] = <<io_error("io::Error")>>

\* A vm_create call with a malformed argument has returned (it had cloned
\* both handles before it decoded).
C2_Witness ==
    \E c \in Calls :
        /\ method[c] = "vm_create" /\ ~argOK[c] /\ st[c] = "done"
        /\ Count(c, "clone_notifier") = 1
        /\ reply[c][1].text = DecodeText

----------------------------------------------------------------------------
(* C3 *)

\* C3: when the send of the begin signal fails, dbus_api_graceful_shutdown
\* has returned at once (the owner is never found polling the done channel)
\* and no begin signal has been delivered to the event loop.
C3_FailedBeginReturnsAtOnce ==
    beginFailed => sd = "returned" /\ begin = "open"

\* The event loop was gone when the owner called dbus_api_graceful_shutdown.
C3_Witness ==
    beginFailed /\ el = "panicked" /\ sd = "returned"

----------------------------------------------------------------------------
(* C4 *)

\* C4: when the begin signal is sent while no call is in flight, and none
\* arrives before the loop has left, the event loop completes at most one
\* tick after the begin signal, and once it is back at the select the only
\* arm that is ready is that of the shutdown receiver.
C4_QuietShutdownWithinOneTick ==
    QuietShutdown =>
        /\ ticksAfterBegin <= 1
        /\ el \in {"select", "exited"}
        /\ el = "select" => ENABLED recv_shutdown /\ ~(\E c \in Calls : ENABLED executor_tick(c))

\* The loop has sent done and left after a shutdown with no call in flight,
\* an earlier call having been served.
C4_Witness ==
    /\ QuietShutdown
    /\ preBegin # {}
    /\ el = "exited"
    /\ doneChan = "value"

----------------------------------------------------------------------------
(* C5 *)

----------------------------------------------------------------------------
(* C6 *)

CoredumpUnavailable ==
    api_error("VmCoredump only works on x86_64 with the guest_debug feature enabled")

\* C6: on a build without guest_debug a vm_coredump call, whatever its
\* argument, completes no step (it decodes nothing and clones no handle),
\* reaches the controller in no way and returns the one fixed failure; on a
\* build with guest_debug it goes the way of vm_add_device: a malformed
\* argument returns the failure of the decoder before any handle is cloned,
\* and a call that returned Ok decoded, cloned both handles and sent one request.
C6_CoredumpGate ==
    \A c \in Calls :
        method[c] = "vm_coredump" =>
            /\ ~guest_debug =>
                  /\ trace[c] = <<>>
                  /\ NoControllerInteraction(c)
                  /\ st[c] = "done" => reply[c] = <<CoredumpUnavailable>>
            /\ guest_debug =>
                  /\ Replied(c) => reply[c][1] # CoredumpUnavailable
                  /\ ~argOK[c] =>
                        /\ trace[c] = <<>>
                        /\ NoControllerInteraction(c)
                        /\ st[c] = "done" => reply[c] = <<api_error("serde_json::Error")>>
                  /\ RepliedOk(c) =>
                        /\ trace[c] = <<"decode">> \o vm_action
                        /\ sent[c] = 1

\* On a build without guest_debug, a vm_coredump call with a well-formed
\* argument and one with a malformed argument have both returned.
C6_Witness ==
    /\ ~guest_debug
    /\ \E c, d \in Calls :
          /\ method[c] = "vm_coredump" /\ argOK[c] /\ st[c] = "done"
          /\ method[d] = "vm_coredump" /\ ~argOK[d] /\ st[d] = "done"
          /\ reply[c] = reply[d]

----------------------------------------------------------------------------
(* C7 *)

\* C7: a call hands at most one closure to blocking::unblock, puts at most
\* one request on the channel, writes the notifier at most once and gets at
\* most one reply; a call that returned Ok, or the failure of the controller,
\* has sent exactly one request.
C7_AtMostOneCommand ==
    \A c \in Calls :
        /\ Count(c, "unblock") <= 1
        /\ sent[c] <= 1
        /\ notified[c] <= 1
        /\ Len(reply[c]) <= 1
        /\ RepliedOk(c) => sent[c] = 1
        /\ (Replied(c) /\ reply[c][1].text = ControllerText) =>
              sent[c] = 1 /\ notified[c] = 1 /\ reply[c][1].class # "Ok"

\* A call whose round-trip failed has returned that failure.
C7_Witness ==
    \E c \in Calls :
        /\ reply[c] = <<api_error("ApiError")>>
        /\ sent[c] = 1
        /\ worker[c] = "done"

----------------------------------------------------------------------------
(* C8 *)

FailureTexts == {DecodeText, NotifierText, ControllerText, UnavailableText}

\* C8, as claimed: every failure a call returns is of one and the same class.
C8_SingleFailureClass ==
    \A c \in Calls : RepliedFailure(c) => reply[c][1].class = "Failed"

\* C8, amended: every failure a call returns carries the text of one of the
\* four kinds; the failure of the notifier duplication is of class IOError,
\* and the three other kinds (decode, controller, capability) are of the one
\* class Failed, told apart by their text only.  Each text is that of the
\* kind that occurred.
C8_FailureClasses ==
    \A c \in Calls :
        RepliedFailure(c) =>
            LET r == reply[c][1] IN
            /\ r.text \in FailureTexts
            /\ r.class = IF r.text = NotifierText THEN "IOError" ELSE "Failed"
            /\ r.text = DecodeText => ~argOK[c] /\ method[c] \in ConfigBearing
            /\ r.text = NotifierText =>
                  Count(c, "clone_sender") = 1 /\ Count(c, "clone_notifier") = 0
            /\ r.text = ControllerText => result[c] # <<>> /\ ~result[c][1].ok
            /\ r.text = UnavailableText => method[c] = "vm_coredump" /\ ~guest_debug

\* A call has returned the failure of the notifier duplication, another the
\* failure of the decoder.
C8_Witness ==
    \E c, d \in Calls :
        /\ RepliedFailure(c) /\ reply[c][1].class = "IOError"
        /\ RepliedFailure(d) /\ reply[d][1].text = DecodeText

----------------------------------------------------------------------------
(* C9 *)

\* Call c returns a failure in this step.
FailsIn(c) == reply[c] = <<>> /\ reply'[c] # <<>> /\ reply'[c][1].class # "Ok"

\* C9: the step in which a call returns a failure, whatever the kind, leaves
\* the guard of the sender free, changes nothing of any other call (its task,
\* its closure, its answer, its reply), nothing of the channel and of the
\* notifier, and leaves the event loop at its select with the next tick
\* armed; and every call that returns Ok returns the value of its own
\* round-trip.
C9_FailureIsLocal ==
    /\ [][\A c \in Calls :
            FailsIn(c) =>
                /\ lockHolder' = {}
                /\ el' = "select"
                /\ \A d \in Calls \ {c} :
                      /\ st'[d] = st[d] /\ ip'[d] = ip[d] /\ trace'[d] = trace[d]
                      /\ worker'[d] = worker[d] /\ result'[d] = result[d]
                      /\ response'[d] = response[d] /\ reply'[d] = reply[d]
                      /\ sent'[d] = sent[d] /\ notified'[d] = notified[d]
                /\ channel' = channel /\ evt' = evt]_vars
    /\ [](\A d \in Calls :
            RepliedOk(d) => /\ result[d] # <<>>
                            /\ result[d] = response[d]
                            /\ reply[d][1].val = response[d][1].val)

\* The first call has returned a failure and the call that arrived after it
\* has returned Ok.
C9_Witness ==
    /\ RepliedFailure(1)
    /\ RepliedOk(2)
    /\ lockHolder = {}

----------------------------------------------------------------------------
(* C10 *)

\* C10: the dbus-thread never waits for a round-trip: whenever a tick is in
\* progress the task it polls can take a step, and a task that awaits its
\* round-trip is off the thread, so that, the loop being at its select, any
\* runnable task of another call can be polled.
C10_EventLoopNeverBlocked ==
    /\ el = "tick" => \E c \in Calls : st[c] = "running"
    /\ \A c \in Calls :
          /\ st[c] = "running" => el = "tick" /\ ENABLED <<poll(c)>>_vars
          /\ st[c] = "awaiting" =>
                \A d \in Calls \ {c} :
                    (el = "select" /\ st[d] = "runnable") => ENABLED executor_tick(d)

\* While the first call awaits an answer the controller has not given yet,
\* the second call has decoded its argument, cloned its handles and put its
\* own request on the channel.
C10_Witness ==
    /\ st[1] = "awaiting"
    /\ worker[1] = "notified"
    /\ response[1] = <<>>
    /\ trace[2] = <<"decode", "clone_sender", "clone_notifier", "unblock">>
    /\ sent[2] = 1

----------------------------------------------------------------------------
(* C11 *)

\* The tasks a tick is polling.
Polled == {c \in Calls : st[c] = "running"}

\* The event loop has left its select loop.
LoopLeft == el \in {"exited", "panicked"}

\* C11: at any moment at most one tick is at work: at most one task is being
\* polled, and one is exactly while the loop is inside a tick; a tick starts
\* on a task only from the select, when the previous tick has completed and
\* polls nothing any more; and once the loop has observed the begin signal
\* and left, no tick starts again.
C11_OneOutstandingTick ==
    /\ [](/\ Cardinality(Polled) <= 1
          /\ (Polled # {}) <=> (el = "tick"))
    /\ [][/\ \A c \in Calls :
                (st[c] # "running" /\ st'[c] = "running") =>
                    el = "select" /\ Polled = {} /\ el' = "tick"
          /\ LoopLeft => (el' = el /\ Polled' = {})]_vars

\* The tick that polled the first call has completed with its reply, and a
\* second tick polls the second call.
C11_Witness ==
    /\ st[1] = "done"
    /\ Replied(1)
    /\ st[2] = "running"
    /\ el = "tick"

----------------------------------------------------------------------------
(* C12 *)

\* C12: the loop observes the begin signal (or the loss of its sender) only
\* at the select, with no tick in progress; the step that observes it starts
\* no tick, settles the done channel and leaves the loop; the done channel is
\* settled by the loop in that step only, so that a done value is never there
\* unless the begin signal was sent and observed, and the loop has never left
\* without having settled the done channel.
C12_BeginObservedBetweenTicks ==
    /\ [][(el # "exited" /\ el' = "exited") =>
              /\ el = "select"
              /\ Polled = {}
              /\ Polled' = {}
              /\ begin \in {"sent", "canceled"}
              /\ doneChan = "empty"
              /\ doneChan' # "empty"]_vars
    /\ [][(doneChan' # doneChan) => (el \in {"select", "tick"} /\ LoopLeft')]_vars
    /\ [](doneChan = "value" => (begin = "sent" /\ el = "exited"))
    /\ [](el = "exited" => doneChan # "empty")

\* The begin signal was sent while a tick was in progress; the tick went on
\* to its end and transmitted a reply, and the loop then observed the signal
\* and sent done.
C12_Witness ==
    /\ doneChan = "value"
    /\ el = "exited"
    /\ ticksAfterBegin = 1
    /\ \E c \in inFlightAtBegin : Replied(c)

----------------------------------------------------------------------------
(* C13 *)

\* C13, as claimed: after the begin signal has been sent the loop completes
\* at most one more tick before it sends done.
C13_AtMostOneTickAfterBegin == ticksAfterBegin <= 1

\* C13, amended: whenever the loop is at its select after the begin signal
\* was sent, the arm of the shutdown receiver is ready, so done can be sent
\* as soon as the tick in progress when the signal was sent has completed;
\* a tick starts after the signal only in a race with that ready arm, on a
\* task that is runnable; and no tick is counted once done was sent.
C13_ShutdownArmReadyAtEverySelect ==
    /\ []((begin = "sent" /\ el = "select") => ENABLED recv_shutdown)
    /\ [][(begin = "sent" /\ el = "select" /\ el' = "tick") =>
              /\ ENABLED recv_shutdown
              /\ \E c \in Calls : st[c] = "runnable" /\ st'[c] = "running"]_vars
    /\ [][doneChan # "empty" => ticksAfterBegin' = ticksAfterBegin]_vars

\* Two ticks have completed after the begin signal, and done was sent after
\* them only.
C13_Witness ==
    /\ ticksAfterBegin = 2
    /\ doneChan = "value"
    /\ el = "exited"

----------------------------------------------------------------------------
(* C14 *)

\* Place of a step in the order decode, duplicate, submit, await, encode.
StepRank(s) ==
    CASE s = "decode" -> 1
      [] s \in {"clone_sender", "clone_notifier"} -> 2
      [] s = "unblock" -> 3
      [] s = "await" -> 4
      [] s = "return" -> 5

\* The steps call c has completed are in that order.
InOrder(c) ==
    \A i, j \in 1..Len(trace[c]) :
        i < j => StepRank(trace[c][i]) <= StepRank(trace[c][j])

\* C14: in every call the steps completed so far are in the order decode,
\* duplicate, submit, await, encode, and a call of a method that has an
\* argument to decode has duplicated a handle only after it decoded.
C14_DecodeBeforeDuplicate ==
    \A c \in Calls :
        /\ InOrder(c)
        /\ (method[c] \in ConfigBearing /\ Count(c, "clone_sender") > 0) =>
              trace[c][1] = "decode"

----------------------------------------------------------------------------
(* C15 *)

\* The closure of c is at its round-trip: it is about to send, has sent, or
\* has notified and waits for the answer.
InRoundTrip(c) == worker[c] \in {"queued", "sent", "notified"}

\* C15: the guard of the sender has at most one holder, and no call holds it
\* outside the tick that polls it: not a call that is suspended (awaiting
\* its round-trip or otherwise), nor one whose closure is sending, notifying
\* or waiting for the answer, nor one that has returned; whenever the loop is
\* at its select the guard is free.
C15_LockOnlyForDuplication ==
    /\ Cardinality(lockHolder) <= 1
    /\ \A c \in Calls :
          (st[c] # "running" \/ InRoundTrip(c)) => c \notin lockHolder
    /\ el = "select" => lockHolder = {}

\* While the closure of the first call has sent its request and not yet
\* notified, its task suspended, the second call has duplicated the sender.
C15_Witness ==
    /\ st[1] = "awaiting"
    /\ worker[1] = "sent"
    /\ Count(2, "clone_sender") = 1
    /\ lockHolder = {}

----------------------------------------------------------------------------
(* C17 *)

\* The duplication of the notifier failed in call c: the call has duplicated
\* the sender and made no duplicate of the notifier.
NotifierDupFailed(c) ==
    Count(c, "clone_sender") = 1 /\ Count(c, "clone_notifier") = 0

\* C17: a call in which the duplication of the notifier failed has returned,
\* in that same tick, the one failure of class IOError; it has handed no
\* closure to blocking::unblock, has no request on the channel, has not
\* written the notifier; and no call returns that failure otherwise.
C17_NotifierFailureOffloadsNothing ==
    \A c \in Calls :
        /\ NotifierDupFailed(c) =>
              /\ st[c] = "done"
              /\ reply[c] = <<io_error("io::Error")>>
              /\ Count(c, "unblock") = 0
              /\ NoControllerInteraction(c)
        /\ (Replied(c) /\ reply[c][1].class = "IOError") => NotifierDupFailed(c)

\* The duplication of the notifier failed in a vmm_ping call, after the call
\* had duplicated the sender, while the request of the other call is on the
\* channel.
C17_Witness ==
    \E c, d \in Calls :
        /\ method[c] = "vmm_ping"
        /\ NotifierDupFailed(c)
        /\ reply[c][1].class = "IOError"
        /\ OnChannel(d)

----------------------------------------------------------------------------
(* C18 *)

\* C18: once the begin signal was sent with success, the loop sooner or later
\* sends done or drops the sender of done, and the owner, polling the done
\* channel, sooner or later returns; the owner leaves its polling loop only
\* when the channel holds a value or was closed, and it stays in the loop
\* exactly while the channel is open and empty.
C18_GracefulShutdownTerminates ==
    /\ (begin = "sent") ~> (doneChan # "empty")
    /\ (sd = "polling") ~> (sd = "returned")
    /\ [][(sd = "polling" /\ sd' # sd) => (doneChan # "empty" /\ sd' = "returned")]_vars
    /\ [](sd = "polling" => (ENABLED try_recv_done <=> doneChan # "empty"))

\* The dbus-thread went down during a tick after the begin signal was sent
\* with success, and the owner left its polling loop on the closed channel.
C18_Witness ==
    /\ begin = "sent"
    /\ doneChan = "closed"
    /\ el = "panicked"
    /\ sd = "returned"

----------------------------------------------------------------------------
(* C19 *)

\* C19: whenever dbus_api_graceful_shutdown has returned, by whichever exit
\* (the send of begin failed, done was received, the sender of done was
\* dropped), the event loop has left its loop and polls no task; and from
\* then on the loop stays where it is, no tick completes, no task takes a
\* step and no reply is transmitted.
C19_LoopLeftWhenShutdownReturns ==
    /\ [](sd = "returned" =>
            /\ LoopLeft
            /\ Polled = {}
            /\ \/ beginFailed /\ el = "panicked" /\ begin = "open"
               \/ ~beginFailed /\ doneChan = "value" /\ el = "exited"
               \/ ~beginFailed /\ doneChan = "closed" /\ el = "panicked")
    /\ [][sd = "returned" =>
            /\ el' = el
            /\ st' = st
            /\ ip' = ip
            /\ trace' = trace
            /\ reply' = reply
            /\ ticksAfterBegin' = ticksAfterBegin]_vars

\* The function has returned on the done value while a call was still
\* waiting for the answer of the controller: the call is never polled again.
C19_Witness ==
    /\ sd = "returned"
    /\ doneChan = "value"
    /\ \E c \in Calls :
          /\ st[c] = "orphaned"
          /\ worker[c] = "notified"
          /\ reply[c] = <<>>

----------------------------------------------------------------------------
(* C20 *)

\* C20: when the owner has dropped the shutdown channels without calling
\* dbus_api_graceful_shutdown, the arm of the shutdown receiver is ready at
\* every select as it is after a begin signal, and the loop sooner or later
\* stops ticking and the thread ends; the loop is left by that arm only, on a
\* begin signal or on the loss of its sender, and in both cases the same step
\* settles the done channel (a value after a signal, a failed send, ignored,
\* after a drop) and polls no task any more.
C20_DroppedSenderStopsLoop ==
    /\ []((begin \in {"sent", "canceled"} /\ el = "select") => ENABLED recv_shutdown)
    /\ (begin = "canceled") ~> LoopLeft
    /\ [][(el # "exited" /\ el' = "exited") =>
              /\ begin \in {"sent", "canceled"}
              /\ begin = "canceled" <=> sd = "dropped"
              /\ doneChan' = IF begin = "sent" THEN "value" ELSE "closed"
              /\ Polled' = {}
              /\ \A c \in Calls : InFlight(c) => st'[c] = "orphaned"]_vars
    /\ [](sd = "dropped" => (doneChan # "value" /\ begin # "sent"))

\* The owner dropped the channels after a call had been served; the loop has
\* left, its send of done having failed.
C20_Witness ==
    /\ sd = "dropped"
    /\ begin = "canceled"
    /\ el = "exited"
    /\ doneChan = "closed"
    /\ \E c \in Calls : RepliedOk(c)

====
